---- MODULE Spec2Model ----
(***************************************************************************)
(* Model of the vpscope trading bot (src/python.py): the signal            *)
(* evaluation, the trade parameters, the trade life cycle driven by the    *)
(* entry-scan loop (main thread) and the monitor loop (daemon thread), the *)
(* suspension registry and the three persisted JSON files.                 *)
(*                                                                         *)
(* Conventions                                                             *)
(*  - prices are integers counting micro-units (10^-6); the float          *)
(*    arithmetic of the source is modelled as exact decimal arithmetic     *)
(*    and round() as round-half-to-even on the exact value (Python rounds  *)
(*    the double nearest to the decimal: 0.0012345 is stored just below    *)
(*    the tie and becomes 0.001234, as it does here; on every value this   *)
(*    module rounds the two agree);                                        *)
(*  - an optional value (Python None / a missing key) is the empty         *)
(*    sequence None, a present value v is <<v>>;                           *)
(*  - datetime.now() is the integer clock `now`, counted in hours; a       *)
(*    trade's start_time, which the code only compares for equality, is    *)
(*    the serial number of the trade (microsecond timestamps of two        *)
(*    opens never coincide);                                               *)
(*  - one run of main() is modelled: Init is the state right after         *)
(*    main() has loaded the three files (lines 489-491).                   *)
(***************************************************************************)
EXTENDS Integers, Sequences, FiniteSets, Bags, TLC

Micro == 10 ^ 6

None == <<>>
Some(v) == <<v>>
Val(o) == o[1]

(***************************************************************************)
(* Exact decimal arithmetic.  A value is int + num/den micro-units with    *)
(* 0 <= num < den, so that no product leaves the 32-bit range.             *)
(***************************************************************************)
Whole(n) == [int |-> n, num |-> 0, den |-> 1]

\* p * a / b for an integer p (micro-units) and a, b > 0
MulFrac(p, a, b) ==
    LET q == p \div b
        t == (p % b) * a
    IN  [int |-> q * a + t \div b, num |-> t % b, den |-> b]

AddInt(x, n) == [x EXCEPT !.int = @ + n]

\* -x, renormalised to 0 <= num < den
Neg(x) ==
    IF x.num = 0 THEN [x EXCEPT !.int = 0 - @]
    ELSE [int |-> 0 - x.int - 1, num |-> x.den - x.num, den |-> x.den]

\* x >= t for an integer threshold t (micro-units)
GeInt(x, t) == x.int >= t

\* Python round(): x rounded to a multiple of step, ties to the even multiple
RoundHalfEven(x, step) ==
    LET a    == x.int \div step
        b    == x.int % step
        twoR == 2 * (b * x.den + x.num)
        full == step * x.den
    IN  IF twoR < full THEN a * step
        ELSE IF twoR > full THEN (a + 1) * step
        ELSE IF a % 2 = 0 THEN a * step ELSE (a + 1) * step

\* round(value, ndigits): the step of ndigits decimal places in micro-units
Step(ndigits) == Micro \div (10 ^ ndigits)

\* a rounding whose top tier (no decimals) starts at 100 instead of 1000
custom_round_no_cents(value) ==
    IF GeInt(value, 100 * Micro) THEN RoundHalfEven(value, Step(0))
    ELSE IF GeInt(value, Micro) THEN RoundHalfEven(value, Step(3))
    ELSE IF GeInt(value, Micro \div 10) THEN RoundHalfEven(value, Step(5))
    ELSE RoundHalfEven(value, Step(6))

\* custom_round, lines 91-103
custom_round(value) ==
    IF GeInt(value, 1000 * Micro) THEN RoundHalfEven(value, Step(0))
    ELSE IF GeInt(value, 100 * Micro) THEN RoundHalfEven(value, Step(2))
    ELSE IF GeInt(value, 10 * Micro) THEN RoundHalfEven(value, Step(3))
    ELSE IF GeInt(value, Micro) THEN RoundHalfEven(value, Step(3))
    ELSE IF GeInt(value, Micro \div 10) THEN RoundHalfEven(value, Step(5))
    ELSE RoundHalfEven(value, Step(6))

\* calculate_trade_parameters, lines 210-233; 0.98 = 49/50, 1.02 = 51/50,
\* 1.68 = 42/25, 2.68 = 67/25, 3.68 = 92/25
calculate_trade_parameters(indicators, side) ==
    LET close_price == indicators.close_price
    IN  IF side = "long"
        THEN LET stoploss == custom_round(MulFrac(close_price, 49, 50))
                 risk     == close_price - stoploss
             IN  [entry |-> close_price,
                  stop_loss |-> stoploss,
                  take_profits |->
                    [TP1 |-> custom_round(AddInt(MulFrac(risk, 42, 25), close_price)),
                     TP2 |-> custom_round(AddInt(MulFrac(risk, 67, 25), close_price)),
                     TP3 |-> custom_round(AddInt(MulFrac(risk, 92, 25), close_price))]]
        ELSE LET stoploss == custom_round(MulFrac(close_price, 51, 50))
                 risk     == stoploss - close_price
             IN  [entry |-> close_price,
                  stop_loss |-> stoploss,
                  take_profits |->
                    [TP1 |-> custom_round(AddInt(Neg(MulFrac(risk, 42, 25)), close_price)),
                     TP2 |-> custom_round(AddInt(Neg(MulFrac(risk, 67, 25)), close_price)),
                     TP3 |-> custom_round(AddInt(Neg(MulFrac(risk, 92, 25)), close_price))]]

\* validate_price, lines 33-34 (every price of the model is a number)
validate_price(price) == price > 0

\* validate_trade_params, lines 36-54 (a trade of the model has the four
\* keys, and its take_profits is a dict)
validate_trade_params(trade_params) ==
    /\ validate_price(trade_params.entry)
    /\ validate_price(trade_params.stop_loss)
    /\ \A tp \in DOMAIN trade_params.take_profits :
          validate_price(trade_params.take_profits[tp])
    /\ trade_params.side \in {"long", "short"}

(***************************************************************************)
(* Signal evaluation.  A snapshot is what fetch_indicators returns (lines  *)
(* 156-168); RSI_prev, BB_upper and BB_lower are optional.                 *)
(***************************************************************************)
\* (a - b) / a <= 0.025, for a > 0: 40 * (a - b) <= a
GapOK(a, b) == IF a > 0 THEN (a - b) <= a \div 40 ELSE TRUE

\* a comparison that lets a missing previous RSI pass
RisingRSI_lenient(ind) == ind.RSI_prev = None \/ ind.RSI > Val(ind.RSI_prev)

\* `RSI.prev is not None and RSI > RSI.prev`, lines 184, 186, 188 (and the
\* mirror of lines 202, 204, 206)
RisingRSI(ind) == ind.RSI_prev # None /\ ind.RSI > Val(ind.RSI_prev)
FallingRSI(ind) == ind.RSI_prev # None /\ ind.RSI < Val(ind.RSI_prev)

\* long_entry_conditions, lines 174-190
long_entry_conditions(indicators_5m, indicators_15m, indicators_30m, indicators_1h) ==
    /\ indicators_5m.BB_upper # None
    /\ indicators_5m.close_price > indicators_5m.ema10
    /\ indicators_5m.ema10 > indicators_5m.ema20
    /\ indicators_5m.ema20 > indicators_5m.ema200
    /\ indicators_5m.RSI > 65
    /\ GapOK(indicators_5m.ema10, indicators_5m.ema200)
    /\ indicators_5m.MACD_macd > indicators_5m.MACD_signal
    /\ \A ind \in {indicators_15m, indicators_30m, indicators_1h} :
          /\ ind.close_price > ind.ema5
          /\ ind.ema5 > ind.ema200
          /\ RisingRSI(ind)

\* short_entry_conditions, lines 192-208
short_entry_conditions(indicators_5m, indicators_15m, indicators_30m, indicators_1h) ==
    /\ indicators_5m.BB_lower # None
    /\ indicators_5m.close_price < indicators_5m.ema10
    /\ indicators_5m.ema10 < indicators_5m.ema20
    /\ indicators_5m.ema20 < indicators_5m.ema200
    /\ indicators_5m.RSI < 35
    /\ GapOK(indicators_5m.ema200, indicators_5m.ema10)
    /\ indicators_5m.MACD_macd < indicators_5m.MACD_signal
    /\ \A ind \in {indicators_15m, indicators_30m, indicators_1h} :
          /\ ind.close_price < ind.ema5
          /\ ind.ema5 < ind.ema200
          /\ FallingRSI(ind)

(***************************************************************************)
(* Inputs of the life-cycle model.                                         *)
(***************************************************************************)
\* lists.json: the configured symbols, in scan order (no symbol twice)
coin_pairs == <<"A", "B">>
Symbols == {coin_pairs[i] : i \in 1..Len(coin_pairs)}

Snap(close, e5, e10, e20, e200, rsi, prev, macd, signal) ==
    [close_price |-> close, ema5 |-> e5, ema10 |-> e10, ema20 |-> e20,
     ema200 |-> e200, RSI |-> rsi, RSI_prev |-> prev, MACD_macd |-> macd,
     MACD_signal |-> signal, BB_upper |-> Some(close + 2 * Micro),
     BB_lower |-> Some(close - 2 * Micro)]

\* an up-trend and a down-trend, both with close = 50
Bull == Snap(50 * Micro, 49900000, 49800000, 49700000, 49500000, 70, Some(60), 2, 1)
Bear == Snap(50 * Micro, 50100000, 50200000, 50300000, 50500000, 30, Some(40), 1, 2)

\* what the four fetch_indicators calls of the entry scan (5m, 15m, 30m, 1h)
\* may return, None being a failed fetch: an up-trend on every timeframe, a
\* down-trend on every timeframe, a mixed reading, and the up-trend with one
\* of the four fetches failed
EntryFetches ==
    {<<Some(Bull), Some(Bull), Some(Bull), Some(Bull)>>,
     <<Some(Bear), Some(Bear), Some(Bear), Some(Bear)>>,
     <<Some(Bull), Some(Bear), Some(Bull), Some(Bull)>>}
    \cup {[k \in 1..4 |-> IF k = f THEN None ELSE Some(Bull)] : f \in 1..4}

\* the down-trend with a last price of 0 on the 5m timeframe
Zero == [Bear EXCEPT !.close_price = 0]
AnyFetches == EntryFetches \cup {<<Some(Zero), Some(Bear), Some(Bear), Some(Bear)>>}

\* the close prices a monitor fetch may return: 48, 50 and 52
MonitorPrices == {48 * Micro, 50 * Micro, 52 * Micro}
MonitorSnapshots == {None} \cup {Some([Bull EXCEPT !.close_price = p]) : p \in MonitorPrices}
AnySnapshots == MonitorSnapshots \cup {Some(Zero)}

\* timedelta(hours=2), lines 320, 362
Cooldown == 2

\* bounds of the model: the clock stops at MaxTime, a run opens MaxTrades
\* trades and, under SpecFaulty, meets MaxFailures failures of a file
\* operation (under Spec these operations succeed); a failed indicator fetch
\* is an input like any other and is not counted, nor is a failed
\* notification in a run whose notifier may fail
MaxTime == 1
MaxTrades == 1
MaxFailures == 1

(***************************************************************************)
(* Dictionaries are functions; `del d[k]` and `d[k] = v`.                  *)
(***************************************************************************)
EmptyDict == <<>>
Put(d, k, v) == [x \in DOMAIN d \cup {k} |-> IF x = k THEN v ELSE d[x]]
Del(d, k) == [x \in DOMAIN d \ {k} |-> d[x]]

VARIABLES
    now,              \* datetime.now(), in hours
    active_trades,    \* dict symbol -> trade (shared by both threads)
    historical_data,  \* dict symbol -> sequence of records (shared)
    suspended_pairs,  \* dict symbol -> suspension record (main's registry)
    file_active,      \* active_trades.json
    file_hist,        \* historical_data.json
    file_suspend,     \* suspend.json: None while the file does not exist
    e_pc, e_i, e_time, e_fetched,   \* the entry-scan loop (main thread)
    m_pc, m_todo, m_ind,            \* the monitor loop (daemon thread)
    trade_seq,        \* serial number of the last trade opened in this run
    fault_budget,     \* failures of file operations left
    notifier_fails,   \* the notifier (Telegram) may fail in this run
    sent,             \* bag of notifications <<kind, symbol, start_time>>
    cooldown,         \* symbol -> suspend_until of its last TP1 close (0: none)
    calc              \* a call of a pure function: [op, input, result]; None
                      \* in a run of the bot

vars == <<now, active_trades, historical_data, suspended_pairs, file_active,
          file_hist, file_suspend, e_pc, e_i, e_time, e_fetched, m_pc, m_todo,
          m_ind, trade_seq, fault_budget, notifier_fails, sent, cooldown, calc>>

(***************************************************************************)
(* Trades, historical records, suspension records.                         *)
(***************************************************************************)
\* the trade add_new_trade stores, lines 269-273; the keys the code adds
\* later (end_time, hit_tps, sl_message_sent) start absent
NewTrade(trade_params, side, message_id, start_time) ==
    [entry |-> trade_params.entry,
     stop_loss |-> trade_params.stop_loss,
     take_profits |-> trade_params.take_profits,
     entry_message_id |-> message_id,
     side |-> side,
     start_time |-> start_time,
     status |-> "open",
     end_time |-> None,
     hit_tps |-> {},
     sl_message_sent |-> FALSE]

\* {**trade_params, 'end_time': None, 'result': 'pending'}, line 274
HistRecord(trade) ==
    [entry |-> trade.entry,
     stop_loss |-> trade.stop_loss,
     take_profits |-> trade.take_profits,
     entry_message_id |-> trade.entry_message_id,
     side |-> trade.side,
     start_time |-> trade.start_time,
     status |-> trade.status,
     end_time |-> None,
     result |-> "pending"]

\* historical_data.setdefault(symbol, []).append(record), line 274
AppendHist(hist, symbol, record) ==
    Put(hist, symbol,
        IF symbol \in DOMAIN hist THEN Append(hist[symbol], record) ELSE <<record>>)

\* the record written to suspend.json, lines 318-321
SuspendRecord(trade, t) == [trade |-> trade, suspend_until |-> t + Cooldown]

\* list(active_trades.keys()), line 449: the symbols in insertion order,
\* which is the order of the start times
Keys(active) ==
    CHOOSE q \in [1..Cardinality(DOMAIN active) -> DOMAIN active] :
        \A i, j \in DOMAIN q : i < j => active[q[i]].start_time < active[q[j]].start_time

(***************************************************************************)
(* Init: main() has loaded the files an earlier run left (lines 489-491).  *)
(*  Fresh      no file exists;                                             *)
(*  Open       the earlier run opened a long trade of A: it is in          *)
(*             active_trades.json, its pending record in                   *)
(*             historical_data.json;                                       *)
(*  Orphan     the same trade, but its record never reached                *)
(*             historical_data.json (the save of line 278 failed, or the   *)
(*             file was lost): load_historical_data returns {};            *)
(*  Suspended  suspend.json holds A, closed at TP1 one hour before the     *)
(*             restart, historical_data.json its win.                      *)
(* A loaded trade has start time 0, the trades of this run 1, 2, ...       *)
(***************************************************************************)
LoadedTrade == NewTrade(calculate_trade_parameters(Bull, "long"), "long", None, 0)

Fresh ==
    [active |-> EmptyDict, hist |-> EmptyDict, registry |-> EmptyDict,
     suspend_file |-> None]
Open ==
    [active |-> Put(EmptyDict, "A", LoadedTrade),
     hist |-> Put(EmptyDict, "A", <<HistRecord(LoadedTrade)>>),
     registry |-> EmptyDict, suspend_file |-> Some(EmptyDict)]
Orphan ==
    [active |-> Put(EmptyDict, "A", LoadedTrade), hist |-> EmptyDict,
     registry |-> EmptyDict, suspend_file |-> Some(EmptyDict)]
Suspended ==
    LET closed == [LoadedTrade EXCEPT !.status = "closed", !.end_time = Some(0 - 1),
                                      !.hit_tps = {"TP1"}]
        reg    == Put(EmptyDict, "A", SuspendRecord(closed, 0 - 1))
    IN  [active |-> EmptyDict,
         hist |-> Put(EmptyDict, "A",
                      <<[HistRecord(LoadedTrade) EXCEPT !.end_time = Some(0 - 1),
                                                        !.result = "win"]>>),
         registry |-> reg, suspend_file |-> Some(reg)]

\* what a restart loads after a close whose save of active_trades.json failed
\* (line 386; save_active_trades logs the failure, lines 121-122) while the
\* save of historical_data.json in line 387 succeeded: the trade of A still
\* open, its record finished as a loss one hour before the restart.  The
\* close block never sets a record's status, so the record still says open.
Reopened ==
    [active |-> Put(EmptyDict, "A", LoadedTrade),
     hist |-> Put(EmptyDict, "A",
                  <<[HistRecord(LoadedTrade) EXCEPT !.end_time = Some(0 - 1),
                                                    !.result = "loss"]>>),
     registry |-> EmptyDict, suspend_file |-> Some(EmptyDict)]

LoadedStates == {Fresh, Open, Orphan, Suspended}

InitFrom(loaded, budget, flaky) ==
    \E l \in loaded :
        /\ now = 0
        /\ active_trades = l.active
        /\ historical_data = l.hist
        /\ suspended_pairs = l.registry
        /\ file_active = l.active
        /\ file_hist = l.hist
        /\ file_suspend = l.suspend_file
        /\ e_pc = "scan" /\ e_i = 1 /\ e_time = 0 /\ e_fetched = <<>>
        /\ m_pc = "pass" /\ m_todo = <<>> /\ m_ind = None
        /\ trade_seq = 0
        /\ fault_budget = budget
        /\ notifier_fails = flaky
        /\ sent = EmptyBag
        /\ cooldown = [s \in Symbols |->
                         IF s \in DOMAIN l.registry THEN l.registry[s].suspend_until ELSE 0]

InitWith(budget) == InitFrom(LoadedStates, budget, budget > 0) /\ calc = None

Init == InitWith(0)
InitFaulty == InitWith(MaxFailures)
\* a first run, without files
InitFirstRun == InitFrom({Fresh}, 0, FALSE) /\ calc = None
\* a first run, without files, in which the notifier may fail
InitFresh == InitFrom({Fresh}, 0, TRUE) /\ calc = None

Running == e_pc # "dead"

\* the operations of the environment that fail in a step are paid from the
\* fault budget
Failed(ok) == IF ok THEN 0 ELSE 1
Spend(n) == fault_budget >= n /\ fault_budget' = fault_budget - n

EntryLocals == <<e_pc, e_i, e_time, e_fetched>>
MonitorLocals == <<m_pc, m_todo, m_ind>>
Memory == <<active_trades, historical_data, suspended_pairs>>
Files == <<file_active, file_hist, file_suspend>>

(***************************************************************************)
(* The entry-scan loop: main() lines 497-500 and process_new_trades.       *)
(* e_pc: scan -> check -> fetch -> decide -> [save_h ->] check ... ->      *)
(*       final -> sleep -> scan, or dead.                                  *)
(***************************************************************************)
\* an expiry that keeps a record at the very moment its suspension ends
Expire_strict(pairs, current_time) ==
    [k \in {x \in DOMAIN pairs : ~(current_time > pairs[x].suspend_until)} |-> pairs[k]]

\* lines 405-407: the records whose suspension time has passed are deleted
Expire(pairs, current_time) ==
    [k \in {x \in DOMAIN pairs : ~(current_time >= pairs[x].suspend_until)} |-> pairs[k]]

\* a scan without the check of line 417, and one without that of line 413
Skips_ignoring_active(symbol, suspended, active) == symbol \in DOMAIN suspended
Skips_ignoring_suspended(symbol, suspended, active) == symbol \in DOMAIN active

\* lines 413-419: the scan skips a suspended or an already active symbol
Skips(symbol, suspended, active) ==
    symbol \in DOMAIN suspended \/ symbol \in DOMAIN active

\* line 427: any(indicator is None ...)
FetchFailed(indicators) == \E i \in DOMAIN indicators : indicators[i] = None

\* lines 431-438: long is evaluated first, short only if long did not qualify
Signal(i5, i15, i30, i1h) ==
    IF long_entry_conditions(i5, i15, i30, i1h) THEN "long"
    ELSE IF short_entry_conditions(i5, i15, i30, i1h) THEN "short"
    ELSE "none"

\* a failed fetch that ends the loop over the symbols
ContinueAt_break(i) == [pc |-> "final", i |-> i]

\* `continue`, line 429: the loop goes on with the next symbol
ContinueAt(i) == [pc |-> "check", i |-> i + 1]

\* lines 398-408: read lists.json, take the time, expire, save the registry.
\* A failed read or a failed save raises into the handler of line 440.
ScanBegin(lists_ok, save_ok) ==
    /\ e_pc = "scan"
    /\ IF ~lists_ok
       THEN /\ e_pc' = "final"
            /\ save_ok
            /\ Spend(1)
            /\ UNCHANGED <<e_i, e_time, suspended_pairs, file_suspend>>
       ELSE /\ e_time' = now
            /\ suspended_pairs' = Expire(suspended_pairs, now)
            /\ e_i' = 1
            /\ Spend(Failed(save_ok))
            /\ IF save_ok
               THEN e_pc' = "check" /\ file_suspend' = Some(suspended_pairs')
               ELSE e_pc' = "final" /\ UNCHANGED file_suspend
    /\ UNCHANGED <<now, notifier_fails, calc, active_trades, historical_data, file_active, file_hist,
                   e_fetched, MonitorLocals, trade_seq, sent, cooldown>>

\* lines 410-419: the next symbol of the list, or the end of the loop
EntryCheck ==
    /\ e_pc = "check"
    /\ IF e_i > Len(coin_pairs)
       THEN e_pc' = "final" /\ UNCHANGED e_i
       ELSE IF Skips(coin_pairs[e_i], suspended_pairs, active_trades)
            THEN e_i' = e_i + 1 /\ UNCHANGED e_pc
            ELSE e_pc' = "fetch" /\ UNCHANGED e_i
    /\ UNCHANGED <<now, notifier_fails, calc, Memory, Files, e_time, e_fetched, MonitorLocals,
                   trade_seq, fault_budget, sent, cooldown>>

\* lines 422-425: the four fetches.  A run opens at most MaxTrades trades:
\* once it has, the market gives no further signal
EntryFetch(fetched) ==
    /\ e_pc = "fetch"
    /\ ~FetchFailed(fetched) /\ trade_seq >= MaxTrades =>
           Signal(Val(fetched[1]), Val(fetched[2]), Val(fetched[3]), Val(fetched[4])) = "none"
    /\ e_fetched' = fetched
    /\ e_pc' = "decide"
    /\ UNCHANGED <<now, notifier_fails, calc, Memory, Files, e_i, e_time, MonitorLocals, trade_seq,
                   fault_budget, sent, cooldown>>

\* lines 427-438 with add_new_trade up to its first save (lines 239-277): a
\* failed fetch skips the symbol; on a signal the entry message is posted
\* (its id is stored when the post succeeds), the trade enters both
\* collections and save_active_trades runs (a failed write is logged, lines
\* 116-122); without a signal the loop goes on
EntryDecide(post_ok, ok) ==
    /\ e_pc = "decide"
    /\ LET symbol == coin_pairs[e_i]
           quiet  == /\ post_ok /\ ok
                     /\ UNCHANGED <<active_trades, historical_data, file_active,
                                    trade_seq, fault_budget>>
       IN  IF FetchFailed(e_fetched)
           THEN e_pc' = ContinueAt(e_i).pc /\ e_i' = ContinueAt(e_i).i /\ quiet
           ELSE \E side \in {Signal(Val(e_fetched[1]), Val(e_fetched[2]),
                                    Val(e_fetched[3]), Val(e_fetched[4]))} :
                  IF side = "none"
                  THEN e_pc' = "check" /\ e_i' = e_i + 1 /\ quiet
                  ELSE \E trade \in {NewTrade(calculate_trade_parameters(Val(e_fetched[1]), side),
                                              side,
                                              IF post_ok THEN Some(trade_seq + 1) ELSE None,
                                              trade_seq + 1)} :
                         /\ active_trades' = Put(active_trades, symbol, trade)
                         /\ historical_data' =
                                AppendHist(historical_data, symbol, HistRecord(trade))
                         /\ trade_seq' = trade_seq + 1
                         /\ post_ok \/ notifier_fails
                         /\ Spend(Failed(ok))
                         /\ file_active' = IF ok THEN active_trades' ELSE file_active
                         /\ e_pc' = "save_h"
                         /\ UNCHANGED e_i
    /\ e_fetched' = <<>>
    /\ UNCHANGED <<now, notifier_fails, calc, suspended_pairs, file_hist, file_suspend, e_time, MonitorLocals,
                   sent, cooldown>>

\* save_historical_data, lines 131-133, called in line 278: a failed write
\* raises into the handler of line 440, which ends the scan
EntrySaveHist(ok) ==
    /\ e_pc = "save_h"
    /\ Spend(Failed(ok))
    /\ IF ok
       THEN file_hist' = historical_data /\ e_pc' = "check" /\ e_i' = e_i + 1
       ELSE e_pc' = "final" /\ UNCHANGED <<file_hist, e_i>>
    /\ UNCHANGED <<now, notifier_fails, calc, Memory, file_active, file_suspend, e_time, e_fetched,
                   MonitorLocals, trade_seq, sent, cooldown>>

\* lines 444-445, outside the try: save_active_trades logs a failed write,
\* a failed write of save_historical_data raises through process_new_trades
\* and main(); the main thread ends and the daemon monitor thread with it.
\* The locals of the call are gone.
EntryFinalSaves(ok_a, ok_h) ==
    /\ e_pc = "final"
    /\ Spend(Failed(ok_a) + Failed(ok_h))
    /\ file_active' = IF ok_a THEN active_trades ELSE file_active
    /\ file_hist' = IF ok_h THEN historical_data ELSE file_hist
    /\ e_pc' = IF ok_h THEN "sleep" ELSE "dead"
    /\ e_i' = 1
    /\ e_time' = 0
    /\ UNCHANGED <<now, notifier_fails, calc, Memory, file_suspend, e_fetched, MonitorLocals, trade_seq,
                   sent, cooldown>>

\* sleep_until_next_5_minute_interval returns, lines 390-394 and 497-500
EntryWake ==
    /\ e_pc = "sleep"
    /\ e_pc' = "scan"
    /\ UNCHANGED <<now, notifier_fails, calc, Memory, Files, e_i, e_time, e_fetched, MonitorLocals,
                   trade_seq, fault_budget, sent, cooldown>>

(***************************************************************************)
(* The monitor loop: manage_active_trades and update_trade_status.         *)
(* m_pc: pass -> fetch -> tick -> fetch -> tick ... -> pass                *)
(***************************************************************************)
\* a stop-loss that gives way to a take-profit the same price reaches
StopLossHit_unless_profit(trade, current_price) ==
    /\ \/ trade.side = "long" /\ current_price <= trade.stop_loss
       \/ trade.side = "short" /\ current_price >= trade.stop_loss
    /\ ~(\/ trade.side = "long" /\ current_price >= trade.take_profits.TP1
         \/ trade.side = "short" /\ current_price <= trade.take_profits.TP1)

\* lines 287 and 329
StopLossHit(trade, current_price) ==
    \/ trade.side = "long" /\ current_price <= trade.stop_loss
    \/ trade.side = "short" /\ current_price >= trade.stop_loss

\* a take-profit test that compares the price with the entry, not with TP1
TakeProfitHit_at_entry(trade, current_price) ==
    /\ ~StopLossHit(trade, current_price)
    /\ \/ trade.side = "long" /\ current_price >= trade.entry
       \/ trade.side = "short" /\ current_price <= trade.entry
    /\ "TP1" \notin trade.hit_tps

\* lines 297-299 and 339-341: looked at only when the stop-loss did not fire
TakeProfitHit(trade, current_price) ==
    /\ ~StopLossHit(trade, current_price)
    /\ \/ trade.side = "long" /\ current_price >= trade.take_profits.TP1
       \/ trade.side = "short" /\ current_price <= trade.take_profits.TP1
    /\ "TP1" \notin trade.hit_tps

\* a test of the one-shot flag the wrong way round
StopLossAlertDue_inverted(trade) == trade.sl_message_sent

\* lines 290 and 332: the alert is due unless the one-shot flag is set
StopLossAlertDue(trade) == ~trade.sl_message_sent

\* a stop-loss branch that sets neither the one-shot flag nor the status
StopLossClose_unmarked(trade, t) == [trade EXCEPT !.end_time = Some(t)]

\* lines 293-295 and 335-337: the trade after the stop-loss branch
StopLossClose(trade, t) ==
    [trade EXCEPT !.sl_message_sent = TRUE, !.status = "closed", !.end_time = Some(t)]

\* lines 304-310 and 346-352: the trade after the TP1 branch
TakeProfitClose(trade, t) ==
    [trade EXCEPT !.hit_tps = @ \cup {"TP1"}, !.status = "closed", !.end_time = Some(t)]

\* lines 372-380: the first record that is open and has the trade's start
\* time gets the end time and the result
MatchingRecord(records, trade) ==
    {i \in DOMAIN records :
        /\ records[i].status = "open"
        /\ records[i].start_time = trade.start_time
        /\ \A j \in 1..(i - 1) :
              ~(records[j].status = "open" /\ records[j].start_time = trade.start_time)}

UpdateHist(records, trade, result, t) ==
    [i \in DOMAIN records |->
        IF i \in MatchingRecord(records, trade)
        THEN [records[i] EXCEPT
                !.end_time = IF trade.end_time # None THEN trade.end_time ELSE Some(t),
                !.result = result]
        ELSE records[i]]

\* a notification <<kind, symbol, start_time>> of a trade
Note(kind, symbol, trade) == SetToBag({<<kind, symbol, trade.start_time>>})

\* what a call leaves behind: the two collections, suspend.json, the
\* notifications it sent, whether it reached its saves (lines 386-387) and
\* whether it raised
Effect(active, hist, suspend, notes, saves, raised) ==
    [active |-> active, hist |-> hist, suspend |-> suspend, notes |-> notes,
     saves |-> saves, raised |-> raised]

\* a notifier whose failed send raises into its caller
send_telegram_message_raising(send_ok) == ~send_ok

\* send_telegram_message, lines 56-89: does the call raise?  Whatever goes
\* wrong in it (no token, a failed post, the rate limit after three tries,
\* send_ok = FALSE) is caught in line 88 and logged.
send_telegram_message(send_ok) == FALSE

\* update_trade_status lines 370-387, the trade being marked closed in the
\* active set: the historical record, the win confirmation, the removal.
\* historical_data[symbol] raises KeyError when the symbol has no history.
CloseTrade(trade, symbol, result, hist, active, suspend, notes, send_ok, t) ==
    IF symbol \notin DOMAIN hist
    THEN Effect(active, hist, suspend, notes, FALSE, TRUE)
    ELSE LET updated == Put(hist, symbol, UpdateHist(hist[symbol], trade, result, t))
             told    == IF result = "win" THEN notes (+) Note("win", symbol, trade)
                                          ELSE notes
         IN  IF result = "win" /\ send_telegram_message(send_ok)
             THEN Effect(active, updated, suspend, told, FALSE, TRUE)
             ELSE Effect(Del(active, symbol), updated, suspend, told, TRUE, FALSE)

\* update_trade_status, lines 280-388, at time t; io_ok: the update of
\* suspend.json in lines 313-324 and 355-366 succeeds (it raises when the
\* file does not exist, too); send_ok: the notifier delivers
update_trade_status(trade, current_price, symbol, hist, active, suspend, io_ok, send_ok, t) ==
    IF StopLossHit(trade, current_price)
    THEN LET closed == StopLossClose(trade, t)
             alert  == StopLossAlertDue(trade)
         IN  IF alert /\ send_telegram_message(send_ok)
             THEN Effect(active, hist, suspend, Note("sl", symbol, trade), FALSE, TRUE)
             ELSE CloseTrade(closed, symbol, "loss", hist, Put(active, symbol, closed),
                             suspend,
                             IF alert THEN Note("sl", symbol, trade) ELSE EmptyBag,
                             send_ok, t)
    ELSE IF TakeProfitHit(trade, current_price)
    THEN LET closed == TakeProfitClose(trade, t)
         IN  IF send_telegram_message(send_ok)
             THEN Effect(active, hist, suspend, Note("tp1", symbol, trade), FALSE, TRUE)
             ELSE IF suspend = None \/ ~io_ok
             THEN Effect(Put(active, symbol, closed), hist, suspend,
                         Note("tp1", symbol, trade), FALSE, TRUE)
             ELSE CloseTrade(closed, symbol, "win", hist, Put(active, symbol, closed),
                             Some(Put(Val(suspend), symbol, SuspendRecord(closed, t))),
                             Note("tp1", symbol, trade), send_ok, t)
    ELSE Effect(active, hist, suspend, EmptyBag, FALSE, FALSE)

\* a monitor without the sweep of lines 455-474: a trade marked closed is
\* handed to update_trade_status like an open one
ManageTrade_without_sweep(symbol, current_price, hist, active, suspend, io_ok, send_ok, t) ==
    IF symbol \notin DOMAIN active
    THEN Effect(active, hist, suspend, EmptyBag, FALSE, FALSE)
    ELSE update_trade_status(active[symbol], current_price, symbol, hist, active, suspend,
                             io_ok, send_ok, t)

\* lines 453-479, the fetch having succeeded: nothing when the symbol has
\* left the active set, the sweep of a trade already marked closed (no code
\* stores a 'result' key in a trade, so lines 457-471 are not taken), or
\* update_trade_status
ManageTrade(symbol, current_price, hist, active, suspend, io_ok, send_ok, t) ==
    IF symbol \notin DOMAIN active
    THEN Effect(active, hist, suspend, EmptyBag, FALSE, FALSE)
    ELSE IF active[symbol].status = "closed"
    THEN Effect(Del(active, symbol), hist, suspend, EmptyBag, TRUE, FALSE)
    ELSE update_trade_status(active[symbol], current_price, symbol, hist, active, suspend,
                             io_ok, send_ok, t)

\* the loop moves to the next symbol of the pass, or to the sleep of line 485
MonitorAdvance ==
    /\ m_todo' = Tail(m_todo)
    /\ m_pc' = IF Tail(m_todo) = <<>> THEN "pass" ELSE "fetch"
    /\ m_ind' = None

\* line 449, after the sleep of line 485: the symbols of this pass
MonitorPass ==
    /\ m_pc = "pass"
    /\ Running
    /\ m_todo' = Keys(active_trades)
    /\ m_pc' = IF DOMAIN active_trades = {} THEN "pass" ELSE "fetch"
    /\ UNCHANGED <<now, notifier_fails, calc, Memory, Files, EntryLocals, m_ind, trade_seq, fault_budget,
                   sent, cooldown>>

\* line 451: the fetch of the 5-minute snapshot of the symbol
MonitorFetch(indicators) ==
    /\ m_pc = "fetch"
    /\ Running
    /\ m_ind' = indicators
    /\ m_pc' = "tick"
    /\ UNCHANGED <<now, notifier_fails, calc, Memory, Files, EntryLocals, m_todo, trade_seq, fault_budget,
                   sent, cooldown>>

\* the call reaches the update of suspend.json (lines 313 and 355) and the
\* file exists
SuspendTried(symbol, current_price, active, suspend) ==
    /\ symbol \in DOMAIN active
    /\ active[symbol].status = "open"
    /\ TakeProfitHit(active[symbol], current_price)
    /\ suspend # None

\* lines 452-484: the rest of the loop body for the symbol.  After a failed
\* fetch nothing happens.  save_active_trades (ok_a) logs a failed write, a
\* failed write of save_historical_data (ok_h) and whatever else the body
\* raises ends in the handler of line 483; send_ok: the notifier delivers.
\* An operation the body does not reach cannot fail.
MonitorTick(io_ok, ok_a, ok_h, send_ok) ==
    /\ m_pc = "tick"
    /\ Running
    /\ Spend(Failed(io_ok) + Failed(ok_a) + Failed(ok_h))
    /\ IF m_ind = None
       THEN /\ io_ok /\ ok_a /\ ok_h /\ send_ok
            /\ UNCHANGED <<Memory, Files, sent, cooldown>>
       ELSE /\ io_ok \/ SuspendTried(Head(m_todo), Val(m_ind).close_price,
                                     active_trades, file_suspend)
            /\ \E e \in {ManageTrade(Head(m_todo), Val(m_ind).close_price, historical_data,
                                     active_trades, file_suspend, io_ok, send_ok, now)} :
              /\ send_ok \/ (notifier_fails /\ e.notes # EmptyBag)
              /\ e.saves \/ (ok_a /\ ok_h)
              /\ active_trades' = e.active
              /\ historical_data' = e.hist
              /\ file_suspend' = e.suspend
              /\ file_active' = IF e.saves /\ ok_a THEN e.active ELSE file_active
              /\ file_hist' = IF e.saves /\ ok_h THEN e.hist ELSE file_hist
              /\ sent' = sent (+) e.notes
              /\ cooldown' = IF e.suspend # file_suspend
                             THEN [cooldown EXCEPT ![Head(m_todo)] = now + Cooldown]
                             ELSE cooldown
              /\ UNCHANGED suspended_pairs
    /\ MonitorAdvance
    /\ UNCHANGED <<now, notifier_fails, calc, EntryLocals, trade_seq>>

\* time passes: the clock counts hours, and they pass while the main thread
\* sleeps between two scans (a scan takes seconds); the monitor loop runs on
Tick ==
    /\ e_pc = "sleep"
    /\ now < MaxTime
    /\ now' = now + 1
    /\ UNCHANGED <<notifier_fails, calc, Memory, Files, EntryLocals, MonitorLocals, trade_seq, fault_budget,
                   sent, cooldown>>

\* the steps of the two loops, the entry scan fetching one of `fetches` and
\* the monitor one of `snapshots`
Bot(fetches, snapshots) ==
    \/ \E lists_ok, save_ok \in BOOLEAN : ScanBegin(lists_ok, save_ok)
    \/ EntryCheck
    \/ \E fetched \in fetches : EntryFetch(fetched)
    \/ \E post_ok, ok \in BOOLEAN : EntryDecide(post_ok, ok)
    \/ \E ok \in BOOLEAN : EntrySaveHist(ok)
    \/ \E ok_a, ok_h \in BOOLEAN : EntryFinalSaves(ok_a, ok_h)
    \/ EntryWake
    \/ MonitorPass
    \/ \E indicators \in snapshots : MonitorFetch(indicators)
    \/ \E io_ok, ok_a, ok_h, send_ok \in BOOLEAN : MonitorTick(io_ok, ok_a, ok_h, send_ok)
    \/ Tick

Next == Bot(EntryFetches, MonitorSnapshots)
\* the exchange may also report a last price of 0
NextAnyPrice == Bot(AnyFetches, AnySnapshots)

Spec == Init /\ [][Next]_vars
SpecFaulty == InitFaulty /\ [][Next]_vars
SpecFresh == InitFresh /\ [][Next]_vars
SpecAnyPrice == InitFirstRun /\ [][NextAnyPrice]_vars

\* the monitor loop keeps running (`while True`, line 448, with the handler
\* of line 482 around every symbol) and the indicator fetch of every symbol
\* succeeds again and again
MonitorFairness ==
    /\ WF_vars(MonitorPass)
    /\ WF_vars(\E io_ok, ok_a, ok_h, send_ok \in BOOLEAN : MonitorTick(io_ok, ok_a, ok_h, send_ok))
    /\ \A symbol \in Symbols :
          SF_vars(/\ m_todo # <<>> /\ Head(m_todo) = symbol
                  /\ \E indicators \in MonitorSnapshots \ {None} : MonitorFetch(indicators))
\* a start-up with an active trade and no history, whose close the
\* KeyError of line 372 interrupts
InitLive == InitFrom({Orphan}, 0, FALSE) /\ calc = None
\* the entry scan of the liveness check reads an up-trend, a mixed reading
\* or an up-trend with a failed fetch: the trades opened meanwhile are longs
LiveFetches ==
    {<<Some(Bull), Some(Bull), Some(Bull), Some(Bull)>>,
     <<Some(Bull), Some(Bear), Some(Bull), Some(Bull)>>,
     <<None, Some(Bull), Some(Bull), Some(Bull)>>}
NextLive == Bot(LiveFetches, MonitorSnapshots)
SpecLive == InitLive /\ [][NextLive]_vars /\ MonitorFairness

\* a start-up with an active trade whose record is already finished
InitReopened == InitFrom({Reopened}, 0, FALSE) /\ calc = None
SpecReopened == InitReopened /\ [][Next]_vars

(***************************************************************************)
(* The pure functions, each called once on an input drawn from a bounded   *)
(* set: custom_round, calculate_trade_parameters and the signal            *)
(* evaluation of lines 431-438.                                            *)
(***************************************************************************)
\* the smallest close prices, in micro-units: 0.000001 .. 0.00003
MaxTinyClose == 30

Call(op, input) == [op |-> op, input |-> input, result |-> None]

\* values given to custom_round: the six values of the documentation
\* (0.0012345 is 1234.5 micro-units), the bound of each tier, the value just
\* below it, and values with digits beyond the tier's decimals on either
\* side of the half (1000.5 and 1001.5 are exact ties)
RoundValues ==
    {Whole(v) : v \in {1500 * Micro, 150456000, 15456700, 1234560, 123456,
                       1000 * Micro, 1000500000, 1001500000, 1000499999,
                       999999999, 999994999, 999995001, 100 * Micro, 100004999,
                       100015001, 99999999, 99999499, 10 * Micro, 10000499,
                       10001501, 9999999, 9999501, Micro, 1000499, 1000501,
                       999999, 999994, 999996, 100000, 100004, 100016, 99999,
                       1, 0}}
    \cup {MulFrac(n, 1, 10) : n \in {12345, 12354, 12344, 12346, 999996, 6, 14, 4}}

\* close prices given to calculate_trade_parameters: the smallest ones and
\* one or two of every tier (0.05, 0.5, 5, 50, 100, 500, 1500)
ClosePrices ==
    1..MaxTinyClose
    \cup {50000, 500000, 5 * Micro, 50 * Micro, 100 * Micro, 500 * Micro, 1500 * Micro}

\* snapshots given to the signal evaluation: an up-trend or a down-trend on
\* the four timeframes, in which RSI.prev of 15m, 30m and 1h and the two
\* Bollinger bands of 5m are present or absent
Absent(ind, rsi_prev, bb_upper, bb_lower) ==
    [ind EXCEPT !.RSI_prev = IF rsi_prev THEN None ELSE @,
                !.BB_upper = IF bb_upper THEN None ELSE @,
                !.BB_lower = IF bb_lower THEN None ELSE @]

SignalInputs ==
    {<<Absent(trend, FALSE, u, l), Absent(trend, a, FALSE, FALSE),
       Absent(trend, b, FALSE, FALSE), Absent(trend, c, FALSE, FALSE)>> :
        trend \in {Bull, Bear}, u \in BOOLEAN, l \in BOOLEAN,
        a \in BOOLEAN, b \in BOOLEAN, c \in BOOLEAN}

InitCalc ==
    /\ InitFrom({Fresh}, 0, FALSE)
    /\ \/ calc \in {Call("custom_round", v) : v \in RoundValues}
       \/ calc \in {Call("calculate_trade_parameters", [close_price |-> c, side |-> side]) :
                       c \in ClosePrices, side \in {"long", "short"}}
       \/ calc \in {Call("signal", i) : i \in SignalInputs}

Pending(op) == calc # None /\ calc.op = op /\ calc.result = None
Bot_vars == <<now, Memory, Files, EntryLocals, MonitorLocals, trade_seq, fault_budget,
              notifier_fails, sent, cooldown>>

Round ==
    /\ Pending("custom_round")
    /\ calc' = [calc EXCEPT !.result = Some(custom_round(calc.input))]
    /\ UNCHANGED Bot_vars

Calculate ==
    /\ Pending("calculate_trade_parameters")
    /\ calc' = [calc EXCEPT !.result =
                   Some(calculate_trade_parameters(calc.input, calc.input.side))]
    /\ UNCHANGED Bot_vars

Evaluate ==
    /\ Pending("signal")
    /\ calc' = [calc EXCEPT !.result =
                   Some(Signal(calc.input[1], calc.input[2], calc.input[3], calc.input[4]))]
    /\ UNCHANGED Bot_vars

NextCalc == Round \/ Calculate \/ Evaluate

SpecCalc == InitCalc /\ [][NextCalc]_vars

\* a finished call of op
Called(op) == calc # None /\ calc.op = op /\ calc.result # None

(***************************************************************************)
(* The claims.                                                             *)
(***************************************************************************)
\* the steps of the entry-scan loop and of the monitor loop
ScanStarts == e_pc = "scan" /\ e_pc' = "check"
Opens == trade_seq' # trade_seq
MonitorTicks == m_pc = "tick" /\ m_pc' # "tick"

\* C1: after a TP1 close of a symbol, every entry scan that starts before the
\* suspend_until of that close has the symbol in the registry it checks and
\* opens no trade for it, and a scan that starts at or after suspend_until
\* does not have it in the registry.
C1_SuspendedDuringCooldown ==
    [][/\ ScanStarts =>
            \A s \in Symbols : (now < cooldown[s]) <=> (s \in DOMAIN suspended_pairs')
       /\ Opens => cooldown[coin_pairs[e_i]] <= now]_vars

\* C2: a trade is opened only for a symbol that is not in the active set at
\* that moment, and no step replaces the trade of a symbol by another trade.
C2_NoOpenOverActive ==
    [][/\ Opens => coin_pairs[e_i] \notin DOMAIN active_trades
       /\ \A s \in DOMAIN active_trades \cap DOMAIN active_trades' :
             active_trades'[s].start_time = active_trades[s].start_time]_vars

\* a trade of B has just been opened while the trade of A is in the active set
C2_OpenedBesideActive ==
    /\ e_pc = "save_h" /\ coin_pairs[e_i] = "B"
    /\ {"A", "B"} \subseteq DOMAIN active_trades
    /\ active_trades["B"].start_time = trade_seq

\* C3: a historical record has result 'pending' only while the trade with its
\* symbol and start time is in the active set.
C3_PendingOnlyWhileActive ==
    \A s \in DOMAIN historical_data : \A i \in DOMAIN historical_data[s] :
        historical_data[s][i].result = "pending" =>
            /\ s \in DOMAIN active_trades
            /\ active_trades[s].start_time = historical_data[s][i].start_time

\* C4: no stop-loss alert is sent twice for the same trade.
C4_StopLossAlertOnce ==
    \A n \in BagToSet(sent) : n[1] = "sl" => CopiesIn(n, sent) <= 1

\* the alert of a trade has been sent, the trade is still in the active set
\* and a later tick sees the price beyond the stop-loss again
C4_SecondObservation ==
    /\ m_pc = "tick" /\ m_ind # None
    /\ Head(m_todo) \in DOMAIN active_trades
    /\ LET trade == active_trades[Head(m_todo)]
       IN  /\ StopLossHit(trade, Val(m_ind).close_price)
           /\ CopiesIn(<<"sl", Head(m_todo), trade.start_time>>, sent) = 1

\* C5: a monitor tick that sees the price of an open trade at or beyond its
\* stop-loss removes the symbol from the active set in that tick, leaves its
\* historical record with result loss and an end time, and creates no
\* suspension record for it.
C5_StopLossClosesInTick ==
    [][(/\ MonitorTicks /\ m_ind # None
        /\ Head(m_todo) \in DOMAIN active_trades
        /\ active_trades[Head(m_todo)].status = "open"
        /\ StopLossHit(active_trades[Head(m_todo)], Val(m_ind).close_price))
       => LET s == Head(m_todo)
              t == active_trades[s].start_time
          IN  /\ s \notin DOMAIN active_trades'
              /\ s \in DOMAIN historical_data'
              /\ \E i \in DOMAIN historical_data'[s] :
                    /\ historical_data'[s][i].start_time = t
                    /\ historical_data'[s][i].result = "loss"
                    /\ historical_data'[s][i].end_time # None
              /\ UNCHANGED <<suspended_pairs, file_suspend>>]_vars

\* C6: whatever operation fails, both loops keep running.
C6_LoopsKeepRunning == e_pc # "dead"

\* C7: the scan fetches no indicators and opens no trade for a symbol that is
\* in the suspension registry or in the active set when the scan reaches it:
\* it goes on with the next symbol, and the symbol whose indicators are
\* fetched or evaluated is in neither.
C7_SkippedNotFetched ==
    [][/\ (/\ e_pc = "check" /\ e_i <= Len(coin_pairs)
           /\ \/ coin_pairs[e_i] \in DOMAIN suspended_pairs
              \/ coin_pairs[e_i] \in DOMAIN active_trades)
          => /\ e_pc' = "check" /\ e_i' \in {e_i, e_i + 1}
             /\ ~Opens
       /\ e_pc' \in {"fetch", "decide"} =>
             /\ coin_pairs[e_i'] \notin DOMAIN suspended_pairs'
             /\ coin_pairs[e_i'] \notin DOMAIN active_trades']_vars

\* the scan has passed the suspended symbol A and is at the next symbol
C7_PassedSuspended ==
    /\ e_pc = "check" /\ e_i = 2
    /\ coin_pairs[1] \in DOMAIN suspended_pairs
    /\ \A s \in DOMAIN active_trades : active_trades[s].start_time = 0

\* C8: the expiry at the start of a scan removes exactly the records with
\* suspend_until <= now and keeps the others as they are, and while the scan
\* checks its symbols every record of the registry has now < suspend_until.
C8_ExpiryBeforeChecks ==
    [][/\ ScanStarts =>
            /\ DOMAIN suspended_pairs' =
                  {s \in DOMAIN suspended_pairs : now < suspended_pairs[s].suspend_until}
            /\ \A s \in DOMAIN suspended_pairs' : suspended_pairs'[s] = suspended_pairs[s]
       /\ e_pc' \in {"check", "fetch", "decide", "save_h"} =>
            \A s \in DOMAIN suspended_pairs' : e_time' < suspended_pairs'[s].suspend_until]_vars

\* the scan that starts at the suspend_until of A has removed its record
C8_ExpiredAtSuspendUntil ==
    /\ e_pc = "check" /\ e_time = 1
    /\ cooldown["A"] = 1
    /\ "A" \notin DOMAIN suspended_pairs

\* C9: the persisted stores agree about every trade opened in this run: an
\* open trade in active_trades.json has its pending record in
\* historical_data.json, and a pending record there has its trade in
\* active_trades.json.
C9_PersistedTogether ==
    \A s \in Symbols :
        /\ (s \in DOMAIN file_active /\ file_active[s].start_time > 0
                                     /\ file_active[s].status = "open")
           => /\ s \in DOMAIN file_hist
              /\ \E i \in DOMAIN file_hist[s] :
                    /\ file_hist[s][i].start_time = file_active[s].start_time
                    /\ file_hist[s][i].result = "pending"
        /\ s \in DOMAIN file_hist =>
              \A i \in DOMAIN file_hist[s] :
                  (file_hist[s][i].start_time > 0 /\ file_hist[s][i].result = "pending")
                  => /\ s \in DOMAIN file_active
                     /\ file_active[s].start_time = file_hist[s][i].start_time

\* C11: whether or not the notifier delivers, a monitor tick leaves the two
\* collections and suspend.json as the same tick with a delivering notifier
\* does, and the step that opens a trade stores the trade and its pending
\* record as computed from the 5-minute snapshot, goes on to the save of the
\* history, and differs from an opening with a delivered entry message in
\* the entry_message_id only.
C11_NotifierNeverBlocks ==
    [][/\ (MonitorTicks /\ m_ind # None) =>
            \E io_ok \in BOOLEAN :
               LET e == ManageTrade(Head(m_todo), Val(m_ind).close_price, historical_data,
                                    active_trades, file_suspend, io_ok, TRUE, now)
               IN  /\ active_trades' = e.active
                   /\ historical_data' = e.hist
                   /\ file_suspend' = e.suspend
       /\ Opens =>
            LET symbol == coin_pairs[e_i]
                i5     == Val(e_fetched[1])
                side   == Signal(i5, Val(e_fetched[2]), Val(e_fetched[3]), Val(e_fetched[4]))
                told   == NewTrade(calculate_trade_parameters(i5, side), side,
                                   Some(trade_seq + 1), trade_seq + 1)
                stored == active_trades'[symbol]
            IN  /\ e_pc' = "save_h"
                /\ stored.entry_message_id \in {None, told.entry_message_id}
                /\ stored = [told EXCEPT !.entry_message_id = stored.entry_message_id]
                /\ active_trades' = Put(active_trades, symbol, stored)
                /\ historical_data' = AppendHist(historical_data, symbol, HistRecord(stored))
                /\ UNCHANGED <<suspended_pairs, file_suspend>>]_vars

\* a trade whose entry message was not delivered has been closed with a win
C11_WonWithoutEntryMessage ==
    \E s \in DOMAIN historical_data : \E i \in DOMAIN historical_data[s] :
        /\ historical_data[s][i].start_time > 0
        /\ historical_data[s][i].entry_message_id = None
        /\ historical_data[s][i].result = "win"
        /\ s \notin DOMAIN active_trades

\* C10: the step of the scan after a failed fetch changes no collection and
\* no file, opens no trade and goes on with the next symbol of the list; the
\* step of the monitor after a failed fetch changes no collection, no file
\* and sends nothing.
C10_FailedFetchChangesNothing ==
    [][/\ (e_pc = "decide" /\ FetchFailed(e_fetched) /\ e_pc' # "decide")
          => /\ e_pc' = "check" /\ e_i' = e_i + 1
             /\ UNCHANGED <<Memory, Files, trade_seq, sent>>
       /\ (MonitorTicks /\ m_ind = None)
          => UNCHANGED <<Memory, Files, trade_seq, sent>>]_vars

\* one of the four fetches of the scan has failed, and so has the fetch of
\* the monitor for a trade in the active set
C10_BothFetchesFailed ==
    /\ e_pc = "decide" /\ FetchFailed(e_fetched)
    /\ m_pc = "tick" /\ m_ind = None
    /\ Head(m_todo) \in DOMAIN active_trades
\* C12: every trade of the active set, loaded at start-up or built by
\* calculate_trade_parameters and add_new_trade from a snapshot, passes the
\* validation of validate_trade_params: entry, stop-loss and the three
\* take-profits are positive and the side is long or short.
C12_ActiveTradesValid ==
    \A symbol \in DOMAIN active_trades : validate_trade_params(active_trades[symbol])

\* C13: a monitor tick that closes a trade (stop-loss or TP1) for which no
\* matching open historical record exists, the symbol having no history at
\* all or no open record with the trade's start time, completes the close in
\* that tick: the trade leaves the active set and both files hold the state.
C13_CloseWithoutRecordCompletes ==
    [][(/\ MonitorTicks /\ m_ind # None
        /\ Head(m_todo) \in DOMAIN active_trades
        /\ active_trades[Head(m_todo)].status = "open"
        /\ \/ StopLossHit(active_trades[Head(m_todo)], Val(m_ind).close_price)
           \/ TakeProfitHit(active_trades[Head(m_todo)], Val(m_ind).close_price)
        /\ \/ Head(m_todo) \notin DOMAIN historical_data
           \/ MatchingRecord(historical_data[Head(m_todo)],
                             active_trades[Head(m_todo)]) = {})
       => /\ Head(m_todo) \notin DOMAIN active_trades'
          /\ file_active' = active_trades'
          /\ file_hist' = historical_data']_vars

\* C14: for every positive close price, the smallest ones included, the
\* levels calculate_trade_parameters returns are strictly ordered:
\* stop_loss < entry < TP1 < TP2 < TP3 for long and
\* TP3 < TP2 < TP1 < entry < stop_loss for short.
C14_LevelsOrdered ==
    (Called("calculate_trade_parameters") /\ calc.input.close_price > 0)
    => LET p  == Val(calc.result)
           tp == p.take_profits
       IN  IF calc.input.side = "long"
           THEN p.stop_loss < p.entry /\ p.entry < tp.TP1 /\ tp.TP1 < tp.TP2
                /\ tp.TP2 < tp.TP3
           ELSE tp.TP3 < tp.TP2 /\ tp.TP2 < tp.TP1 /\ tp.TP1 < p.entry
                /\ p.entry < p.stop_loss

\* C15: the signal evaluation returns none whenever RSI.prev of 15m, 30m or
\* 1h is absent, and it does not return a side whose 5m Bollinger band
\* (BB.upper for long, BB.lower for short) is absent, whatever the other
\* indicator values are.
C15_AbsentValueNoSignal ==
    Called("signal")
    => /\ (\E k \in 2..4 : calc.input[k].RSI_prev = None) => Val(calc.result) = "none"
       /\ calc.input[1].BB_upper = None => Val(calc.result) # "long"
       /\ calc.input[1].BB_lower = None => Val(calc.result) # "short"

\* an evaluation that returned none although every long inequality holds:
\* only RSI.prev of 30m is absent
C15_OnlyPreviousRSIMissing ==
    /\ Called("signal")
    /\ calc.input[3].RSI_prev = None
    /\ Signal(calc.input[1], calc.input[2],
              [calc.input[3] EXCEPT !.RSI_prev = Some(60)], calc.input[4]) = "long"
    /\ Val(calc.result) = "none"

\* the call calculate_trade_parameters({close_price: 100}, long), finished
C16_Close100Long ==
    /\ Called("calculate_trade_parameters")
    /\ calc.input.close_price = 100 * Micro
    /\ calc.input.side = "long"

\* C16 as documented: long with close = 100 yields entry 100, stop-loss 98.0
\* (risk 2.0) and TP1 = 103.36, TP2 = 105.36, TP3 = 106.72.
C16_DocumentedLevels ==
    C16_Close100Long
    => Val(calc.result) = [entry |-> 100 * Micro, stop_loss |-> 98 * Micro,
                           take_profits |-> [TP1 |-> 103360000, TP2 |-> 105360000,
                                             TP3 |-> 106720000]]

\* C16, amended: long with close = 100 yields entry 100, stop-loss 98.0
\* (risk 2.0) and TP1 = 103.36, TP2 = 105.36, TP3 = 107.36 = 100 + 2.0 x 3.68.
C16_LevelsForClose100 ==
    C16_Close100Long
    => /\ Val(calc.result).entry = 100 * Micro
       /\ Val(calc.result).stop_loss = 98 * Micro
       /\ Val(calc.result).entry - Val(calc.result).stop_loss = 2 * Micro
       /\ Val(calc.result).take_profits =
             [TP1 |-> 103360000, TP2 |-> 105360000, TP3 |-> 107360000]

\* the decimals custom_round is documented to keep for a value: 0 from 1000,
\* 2 from 100, 3 from 10 and from 1, 5 from 0.1 and 6 below
C17_Decimals(value) ==
    IF value.int >= 1000 * Micro THEN 0
    ELSE IF value.int >= 100 * Micro THEN 2
    ELSE IF value.int >= Micro THEN 3
    ELSE IF value.int >= 100000 THEN 5
    ELSE 6

\* the documented results: 1500, 150.456, 15.4567, 1.23456, 0.123456 and
\* 0.0012345 yield 1500, 150.46, 15.457, 1.235, 0.12346 and 0.001235
C17_Documented ==
    {<<Whole(1500 * Micro), 1500 * Micro>>, <<Whole(150456000), 150460000>>,
     <<Whole(15456700), 15457000>>, <<Whole(1234560), 1235000>>,
     <<Whole(123456), 123460>>, <<MulFrac(12345, 1, 10), 1235>>}

\* C17: custom_round returns a nearest value with the decimals of the tier
\* of its argument (0 from 1000, 2 from 100, 3 from 10 and from 1, 5 from 0.1,
\* 6 below), and the six documented values yield the documented results.
C17_TiersAndExamples ==
    Called("custom_round")
    => LET value  == calc.input
           result == Val(calc.result)
           step   == Step(C17_Decimals(value))
           twice  == 2 * ((result - value.int) * value.den - value.num)
       IN  /\ result % step = 0
           /\ twice <= step * value.den /\ 0 - twice <= step * value.den
           /\ \A d \in C17_Documented : d[1] = value => d[2] = result

\* symbol has a record in suspend.json `file` whose suspend_until lies after t
C18_Cooling(file, symbol, t) ==
    /\ file # None
    /\ symbol \in DOMAIN Val(file)
    /\ t < Val(file)[symbol].suspend_until

\* C18: a suspension record of suspend.json stays in the file until its
\* suspend_until has passed, whatever steps the entry scan and the monitor
\* take, and while it is there the in-memory registry holds the symbol too.
C18_SuspensionKept ==
    [][\A symbol \in Symbols :
          /\ C18_Cooling(file_suspend, symbol, now')
                => C18_Cooling(file_suspend', symbol, now')
          /\ C18_Cooling(file_suspend', symbol, now')
                => symbol \in DOMAIN suspended_pairs']_vars

\* the stop-loss condition and the TP1 condition of a trade at a price, as
\* documented
C19_StopLossCondition(trade, price) ==
    IF trade.side = "long" THEN price <= trade.stop_loss ELSE price >= trade.stop_loss
C19_TakeProfitCondition(trade, price) ==
    IF trade.side = "long" THEN price >= trade.take_profits.TP1
    ELSE price <= trade.take_profits.TP1

\* C19: a monitor tick whose price satisfies the stop-loss condition of an
\* open trade closes it as a loss and does nothing of the TP1 transition,
\* even when the price satisfies the TP1 condition too: TP1 is not recorded
\* as hit, suspend.json is not written, no TP1 or win notification is sent
\* and no historical record becomes a win; a tick whose price does not
\* satisfy the stop-loss condition does nothing of the stop-loss transition.
C19_StopLossFirst ==
    [][(/\ MonitorTicks /\ m_ind # None
        /\ Head(m_todo) \in DOMAIN active_trades
        /\ active_trades[Head(m_todo)].status = "open")
       => LET s     == Head(m_todo)
              trade == active_trades[s]
              New(kind) == CopiesIn(<<kind, s, trade.start_time>>, sent')
                           - CopiesIn(<<kind, s, trade.start_time>>, sent)
              Turned(result) ==
                  IF s \in DOMAIN historical_data
                  THEN {i \in DOMAIN historical_data[s] :
                          /\ historical_data'[s][i] # historical_data[s][i]
                          /\ historical_data'[s][i].result = result}
                  ELSE {}
          IN  IF C19_StopLossCondition(trade, Val(m_ind).close_price)
              THEN /\ s \in DOMAIN active_trades'
                        => /\ active_trades'[s].status = "closed"
                           /\ "TP1" \notin active_trades'[s].hit_tps
                   /\ s \in DOMAIN historical_data
                        => Turned("loss") = MatchingRecord(historical_data[s], trade)
                   /\ Turned("win") = {}
                   /\ file_suspend' = file_suspend
                   /\ New("tp1") = 0 /\ New("win") = 0
              ELSE /\ Turned("loss") = {}
                   /\ New("sl") = 0
                   /\ s \in DOMAIN active_trades' => ~active_trades'[s].sl_message_sent]_vars

\* a tick about to handle a price that satisfies both conditions of an open
\* trade
C19_BothConditions ==
    /\ m_pc = "tick" /\ m_ind # None
    /\ Head(m_todo) \in DOMAIN active_trades
    /\ active_trades[Head(m_todo)].status = "open"
    /\ C19_StopLossCondition(active_trades[Head(m_todo)], Val(m_ind).close_price)
    /\ C19_TakeProfitCondition(active_trades[Head(m_todo)], Val(m_ind).close_price)

\* a tick about to handle a price between the stop-loss and TP1 of an open
\* trade
C20_NeitherCondition ==
    /\ m_pc = "tick" /\ m_ind # None
    /\ Head(m_todo) \in DOMAIN active_trades
    /\ active_trades[Head(m_todo)].status = "open"
    /\ ~C19_StopLossCondition(active_trades[Head(m_todo)], Val(m_ind).close_price)
    /\ ~C19_TakeProfitCondition(active_trades[Head(m_todo)], Val(m_ind).close_price)

\* C20: a monitor tick whose price satisfies neither the stop-loss nor the
\* TP1 condition of an open trade changes nothing: the trade and the active
\* set, the historical data, the suspension records and the three files stay
\* as they are, and no notification is sent.
C20_NoConditionNoChange ==
    [][(C20_NeitherCondition /\ MonitorTicks)
       => UNCHANGED <<active_trades, historical_data, suspended_pairs, file_active,
                      file_hist, file_suspend, sent>>]_vars

\* the notifications of one kind sent for the trade of a historical record
C21_Sent(kind, symbol, record) == CopiesIn(<<kind, symbol, record.start_time>>, sent)

\* the historical records closed in this run (a record closed before the
\* start-up has an end time before 0, and its notifications were sent then)
C21_ClosedInRun(result) ==
    {<<symbol, i>> \in UNION {{symbol} \X DOMAIN historical_data[symbol] :
                                symbol \in DOMAIN historical_data} :
        /\ historical_data[symbol][i].result = result
        /\ historical_data[symbol][i].end_time # None
        /\ Val(historical_data[symbol][i].end_time) >= 0}

C22_LeftClosed(symbol) ==
    symbol \in DOMAIN active_trades /\ active_trades[symbol].status = "closed"

\* C22: while the monitor loop keeps running and the fetches of its symbol
\* succeed again and again, a trade left in the active set with status
\* closed is eventually removed from it, and the monitor tick that handles
\* it removes it without evaluating stop-loss or take-profit: no
\* notification, no change of the historical data or of suspend.json.
C22_ClosedIsSwept ==
    /\ \A symbol \in Symbols :
          C22_LeftClosed(symbol) ~> (symbol \notin DOMAIN active_trades)
    /\ [][(MonitorTicks /\ m_ind # None /\ C22_LeftClosed(Head(m_todo)))
            => /\ active_trades' = Del(active_trades, Head(m_todo))
               /\ UNCHANGED <<historical_data, file_suspend, sent>>]_vars

\* a trade left in the active set with status closed, its close having
\* been interrupted
C22_CloseInterrupted == \E symbol \in Symbols : C22_LeftClosed(symbol)

\* the records of the history that a step changes, as <<symbol, index>>
C23_Changed ==
    {c \in UNION {{symbol} \X DOMAIN historical_data[symbol] :
                    symbol \in DOMAIN historical_data} :
        \/ c[1] \notin DOMAIN historical_data'
        \/ c[2] \notin DOMAIN historical_data'[c[1]]
        \/ historical_data'[c[1]][c[2]] # historical_data[c[1]][c[2]]}

\* C23: the historical data is append-only.  In every step each symbol keeps
\* its records in their places (the sequence never shrinks or reorders); at
\* most one record changes, it is the record of a trade of the active set
\* with that symbol and the same start time, and only its end time and its
\* result change; a record whose result is already win or loss is never
\* modified again.
C23_HistoryAppendOnly ==
    [][/\ \A symbol \in DOMAIN historical_data :
              /\ symbol \in DOMAIN historical_data'
              /\ Len(historical_data'[symbol]) >= Len(historical_data[symbol])
       /\ Cardinality(C23_Changed) <= 1
       /\ \A c \in C23_Changed :
              LET old == historical_data[c[1]][c[2]]
                  new == historical_data'[c[1]][c[2]]
              IN  /\ c[1] \in DOMAIN active_trades
                  /\ active_trades[c[1]].start_time = old.start_time
                  /\ new = [old EXCEPT !.end_time = new.end_time, !.result = new.result]
                  /\ old.result = "pending"]_vars

\* a finished record rewritten: the trade of A, loaded as open although its
\* record is a loss, closes again
C23_FinishedRewritten ==
    /\ "A" \in DOMAIN historical_data
    /\ historical_data["A"][1].start_time = 0
    /\ historical_data["A"][1].end_time # None
    /\ Val(historical_data["A"][1].end_time) >= 0


====
